---------------------------- MODULE Spec2Model ----------------------------
(***************************************************************************)
(* A model of wave.py: fetch_dart_data (one HTTP GET, the line-by-line      *)
(* record parser, the table builder) and main (the per-station loop, the   *)
(* outer join of the station tables, the tail print and the chart).        *)
(*                                                                         *)
(* Text is a sequence of one-character strings.  The library calls the     *)
(* source makes (str.splitlines/strip/split, re.fullmatch, float,          *)
(* pd.to_datetime with an explicit format, DataFrame.sort_index,           *)
(* Index.duplicated, pd.concat) are modelled by what they are documented   *)
(* to do on the characters the model's inputs use.                         *)
(***************************************************************************)
EXTENDS Integers, Sequences, FiniteSets, TLC

VARIABLES
    pc,         \* main: "loop", "tail", "plot", "done" or "returned"
    idx,        \* main: position in stations.items() of the next station
    dfs,        \* main: the list dfs
    fetched,    \* main: history, per attempt the station's position, the response, ok or not
    console,    \* main: what print() wrote, in order
    combined,   \* main: the DataFrame combined, or NoFrame
    chart,      \* main: what was handed to matplotlib, or NoChart
    f_pc,       \* fetch_dart_data: "get", "lines", "build" or "end"
    f_resp,     \* fetch_dart_data: the station asked for and what the server answers
    f_lines,    \* fetch_dart_data: the lines of resp.text not yet read
    f_seen,     \* fetch_dart_data: history, the lines already read
    f_records,  \* fetch_dart_data: the list records
    f_result    \* fetch_dart_data: Pending, a returned table or a raised error

mainVars  == <<pc, idx, dfs, fetched, console, combined, chart>>
fetchVars == <<f_pc, f_resp, f_lines, f_seen, f_records, f_result>>
vars      == <<pc, idx, dfs, fetched, console, combined, chart,
               f_pc, f_resp, f_lines, f_seen, f_records, f_result>>

(***************************************************************************)
(* Characters and strings                                                  *)
(***************************************************************************)
Digits == {"0", "1", "2", "3", "4", "5", "6", "7", "8", "9"}

DigitVal(c) ==
    CASE c = "0" -> 0 [] c = "1" -> 1 [] c = "2" -> 2 [] c = "3" -> 3
      [] c = "4" -> 4 [] c = "5" -> 5 [] c = "6" -> 6 [] c = "7" -> 7
      [] c = "8" -> 8 [] c = "9" -> 9

\* What str.strip() and str.split() treat as whitespace.
Whitespace == {" ", "\t", "\n", "\r"}

\* The members of a finite set of integers in ascending order.
Ascending(S) ==
    [i \in 1..Cardinality(S) |->
        CHOOSE x \in S : Cardinality({y \in S : y < x}) = i - 1]

\* str.splitlines(): a line ends at "\n", "\r" or "\r\n"; the breaks are
\* dropped and no empty string follows the last break.
SplitLines(s) ==
    LET n      == Len(s)
        \* the last character of each line break
        ends   == {k \in 1..n : \/ s[k] = "\n"
                                \/ s[k] = "\r" /\ ~(k < n /\ s[k + 1] = "\n")}
        e      == Ascending(ends)
        last   == IF ends = {} THEN 0 ELSE e[Len(e)]
        start(i) == IF i = 1 THEN 1 ELSE e[i - 1] + 1
        stop(i)  == IF s[e[i]] = "\n" /\ e[i] > 1 /\ s[e[i] - 1] = "\r"
                    THEN e[i] - 2 ELSE e[i] - 1
        broken == [i \in 1..Len(e) |-> SubSeq(s, start(i), stop(i))]
    IN  IF last < n THEN Append(broken, SubSeq(s, last + 1, n)) ELSE broken

\* str.strip(): drop the leading and the trailing whitespace.
Strip(s) ==
    LET solid == {k \in 1..Len(s) : s[k] \notin Whitespace}
    IN  IF solid = {} THEN <<>>
        ELSE SubSeq(s, CHOOSE k \in solid : \A j \in solid : k <= j,
                       CHOOSE k \in solid : \A j \in solid : k >= j)

\* str.startswith('#')
StartsWithHash(s) == s # <<>> /\ Head(s) = "#"

\* str.split(): the maximal runs of non-whitespace, in order.
Split(s) ==
    LET n      == Len(s)
        starts == Ascending({k \in 1..n : /\ s[k] \notin Whitespace
                                          /\ (k = 1 \/ s[k - 1] \in Whitespace)})
        stops  == Ascending({k \in 1..n : /\ s[k] \notin Whitespace
                                          /\ (k = n \/ s[k + 1] \in Whitespace)})
    IN  [i \in 1..Len(starts) |-> SubSeq(s, starts[i], stops[i])]

\* ' '.join(parts)
RECURSIVE JoinSpace(_)
JoinSpace(parts) ==
    IF parts = <<>> THEN <<>>
    ELSE IF Len(parts) = 1 THEN parts[1]
    ELSE parts[1] \o <<" ">> \o JoinSpace(Tail(parts))

\* re.fullmatch(r'\d+', p)
AllDigits(p) == Len(p) >= 1 /\ \A k \in 1..Len(p) : p[k] \in Digits

\* re.fullmatch(r'\d{14}', p)
FourteenDigits(p) == Len(p) = 14 /\ \A k \in 1..14 : p[k] \in Digits

\* int() of a string of digits
RECURSIVE DigitsValue(_)
DigitsValue(p) ==
    IF p = <<>> THEN 0
    ELSE 10 * DigitsValue(SubSeq(p, 1, Len(p) - 1)) + DigitVal(p[Len(p)])

(***************************************************************************)
(* pd.to_datetime(s, format=..., utc=True)                                 *)
(*                                                                         *)
(* The format is matched as strptime matches it: %Y is exactly four        *)
(* digits; %m, %d, %H, %M and %S are one or two digits in the directive's  *)
(* range; a blank of the format matches a run of whitespace; the whole     *)
(* string has to be consumed.  The matched fields then have to be a date   *)
(* of the calendar inside the range a nanosecond timestamp can hold.  A    *)
(* timestamp is the number of seconds since 1970-01-01T00:00:00Z.          *)
(***************************************************************************)
NoTimestamp == [ok |-> FALSE]

IsLeap(y) == (y % 4 = 0 /\ y % 100 # 0) \/ y % 400 = 0

DaysInMonth(y, m) ==
    IF m = 2 THEN (IF IsLeap(y) THEN 29 ELSE 28)
    ELSE IF m \in {4, 6, 9, 11} THEN 30 ELSE 31

\* Days from 1970-01-01 to the civil date y-m-d (proleptic Gregorian).
DaysFromCivil(y, m, d) ==
    LET yy  == IF m <= 2 THEN y - 1 ELSE y
        era == yy \div 400
        yoe == yy - era * 400
        mp  == IF m > 2 THEN m - 3 ELSE m + 9
        doy == (153 * mp + 2) \div 5 + d - 1
        doe == yoe * 365 + yoe \div 4 - yoe \div 100 + doy
    IN  era * 146097 + doe - 719468

\* The years a datetime64[ns] holds whole (1677-09-21 .. 2262-04-11).
MinYear == 1678
MaxYear == 2261

\* One directive against digits f: its width and its range.
FieldOK(f, lo, hi) ==
    /\ Len(f) \in {1, 2}
    /\ \A k \in 1..Len(f) : f[k] \in Digits
    /\ DigitsValue(f) >= lo
    /\ DigitsValue(f) <= hi

\* The six matched fields to an instant, or the ValueError of the library.
FieldsToTimestamp(Y, m, d, H, M, S) ==
    IF /\ Len(Y) = 4 /\ AllDigits(Y)
       /\ FieldOK(m, 1, 12) /\ FieldOK(d, 1, 31)
       /\ FieldOK(H, 0, 23) /\ FieldOK(M, 0, 59) /\ FieldOK(S, 0, 61)
    THEN LET y  == DigitsValue(Y)
             mo == DigitsValue(m)
             dd == DigitsValue(d)
         IN  IF /\ dd <= DaysInMonth(y, mo)
                /\ DigitsValue(S) <= 59
                /\ y >= MinYear /\ y <= MaxYear
             THEN [ok |-> TRUE,
                   ts |-> DaysFromCivil(y, mo, dd) * 86400
                          + DigitsValue(H) * 3600 + DigitsValue(M) * 60
                          + DigitsValue(S)]
             ELSE NoTimestamp
    ELSE NoTimestamp

\* format='%Y%m%d%H%M%S' on a token of fourteen digits: the year takes four
\* digits, so the ten left over are consumed only by five fields of two.
ToDatetimeCombined(p) ==
    IF Len(p) = 14
    THEN FieldsToTimestamp(SubSeq(p, 1, 4), SubSeq(p, 5, 6), SubSeq(p, 7, 8),
                           SubSeq(p, 9, 10), SubSeq(p, 11, 12), SubSeq(p, 13, 14))
    ELSE NoTimestamp

\* format='%Y %m %d %H %M %S' on six digit runs joined by single blanks.
ToDatetimeSplit(s) ==
    LET f == Split(s)
    IN  IF Len(f) = 6 /\ s = JoinSpace(f)
        THEN FieldsToTimestamp(f[1], f[2], f[3], f[4], f[5], f[6])
        ELSE NoTimestamp

(***************************************************************************)
(* float(s)                                                                *)
(*                                                                         *)
(* [sign] (digits [. [digits]] | . digits) [(e|E) [sign] digits], or       *)
(* [sign] nan | inf | infinity.  A finite value is kept as a normalised    *)
(* decimal (mantissa without trailing zeros, power of ten), so that        *)
(* "1.0", "1" and "10e-1" are one value.                                   *)
(***************************************************************************)
NaN == [k |-> "nan"]
NoFloat == [ok |-> FALSE]

Lower(c) ==
    CASE c = "N" -> "n" [] c = "A" -> "a" [] c = "I" -> "i" [] c = "F" -> "f"
      [] c = "T" -> "t" [] c = "Y" -> "y" [] c = "E" -> "e" [] OTHER -> c

LowerAll(s) == [k \in 1..Len(s) |-> Lower(s[k])]

\* The first position of s holding a character of set cs, or 0.
FirstIndex(s, cs) ==
    IF \E k \in 1..Len(s) : s[k] \in cs
    THEN CHOOSE k \in 1..Len(s) :
            s[k] \in cs /\ \A j \in 1..(k - 1) : s[j] \notin cs
    ELSE 0

RECURSIVE Normalise(_, _)
Normalise(mant, exp) ==
    IF mant = 0 THEN <<0, 0>>
    ELSE IF mant % 10 = 0 THEN Normalise(mant \div 10, exp + 1)
    ELSE <<mant, exp>>

ParseFloat(tok) ==
    LET signed == tok # <<>> /\ tok[1] \in {"+", "-"}
        neg    == tok # <<>> /\ tok[1] = "-"
        body   == LowerAll(IF signed THEN Tail(tok) ELSE tok)
        ePos   == FirstIndex(body, {"e"})
        mpart  == IF ePos = 0 THEN body ELSE SubSeq(body, 1, ePos - 1)
        epart  == IF ePos = 0 THEN <<>> ELSE SubSeq(body, ePos + 1, Len(body))
        eSign  == epart # <<>> /\ epart[1] \in {"+", "-"}
        eDig   == IF eSign THEN Tail(epart) ELSE epart
        dot    == FirstIndex(mpart, {"."})
        ipart  == IF dot = 0 THEN mpart ELSE SubSeq(mpart, 1, dot - 1)
        fpart  == IF dot = 0 THEN <<>> ELSE SubSeq(mpart, dot + 1, Len(mpart))
        digitsOnly(x) == \A k \in 1..Len(x) : x[k] \in Digits
    IN  IF body = <<"n", "a", "n">> THEN [ok |-> TRUE, val |-> NaN]
        ELSE IF body \in {<<"i", "n", "f">>,
                          <<"i", "n", "f", "i", "n", "i", "t", "y">>}
             THEN [ok |-> TRUE, val |-> [k |-> "inf", neg |-> neg]]
        ELSE IF /\ digitsOnly(ipart) /\ digitsOnly(fpart)
                /\ Len(ipart) + Len(fpart) >= 1
                /\ (ePos # 0 => Len(eDig) >= 1 /\ digitsOnly(eDig))
             THEN LET e  == IF ePos = 0 THEN 0
                            ELSE IF epart[1] = "-" THEN 0 - DigitsValue(eDig)
                            ELSE DigitsValue(eDig)
                      nm == Normalise(DigitsValue(ipart \o fpart), e - Len(fpart))
                  IN  [ok  |-> TRUE,
                       val |-> [k |-> "num", neg |-> neg /\ nm[1] # 0,
                                mant |-> nm[1], exp |-> nm[2]]]
        ELSE NoFloat

(***************************************************************************)
(* fetch_dart_data                                                         *)
(***************************************************************************)
Pending == [state |-> "pending"]

\* requests.get raising (timeout, connection) and raise_for_status raising.
RequestError(resp) ==
    IF resp.status = "timeout"
    THEN [ok |-> FALSE, exc |-> "RequestException", site |-> "requests.get"]
    ELSE [ok |-> FALSE, exc |-> "HTTPError", site |-> "raise_for_status"]

\* if re.fullmatch(r'\d{14}', parts[0]) and len(parts) >= 2
IsCaseA(parts) == FourteenDigits(parts[1]) /\ Len(parts) >= 2

\* A faulty variant of IsCaseB: parts[:7] for parts[:6], so the height has to
\* be digits too.
IsCaseBSevenDigits(parts) == Len(parts) >= 7 /\ \A k \in 1..7 : AllDigits(parts[k])

\* elif len(parts) >= 7 and all(re.fullmatch(r'\d+', p) for p in parts[:6])
IsCaseB(parts) == Len(parts) >= 7 /\ \A k \in 1..6 : AllDigits(parts[k])

\* A faulty variant of RecordOrRaise: a height that is no float is caught
\* and the line skipped.
RecordOrSkipBadHeight(ts, height) ==
    IF ~ts.ok THEN [kind |-> "raise",
                    err |-> [ok |-> FALSE, exc |-> "ValueError", site |-> "to_datetime"]]
    ELSE IF ~height.ok THEN [kind |-> "skip"]
    ELSE [kind |-> "record", rec |-> [ts |-> ts.ts, val |-> height.val]]

\* A faulty variant of RecordOrRaise: digits that are no date (errors='coerce'
\* and a test for NaT) make the line skipped.
RecordOrSkipBadDate(ts, height) ==
    IF ~ts.ok THEN [kind |-> "skip"]
    ELSE IF ~height.ok
         THEN [kind |-> "raise",
               err |-> [ok |-> FALSE, exc |-> "ValueError", site |-> "float"]]
    ELSE [kind |-> "record", rec |-> [ts |-> ts.ts, val |-> height.val]]

\* ts = pd.to_datetime(...); height = float(...): the first that raises ends
\* the call, otherwise the pair is the record.
RecordOrRaise(ts, height) ==
    IF ~ts.ok THEN [kind |-> "raise",
                    err |-> [ok |-> FALSE, exc |-> "ValueError", site |-> "to_datetime"]]
    ELSE IF ~height.ok
         THEN [kind |-> "raise",
               err |-> [ok |-> FALSE, exc |-> "ValueError", site |-> "float"]]
    ELSE [kind |-> "record", rec |-> [ts |-> ts.ts, val |-> height.val]]

\* One pass of the body of `for line in resp.text.splitlines()`.
ParseLine(raw) ==
    LET line  == Strip(raw)
        parts == Split(line)
    IN  IF line = <<>> \/ StartsWithHash(line) THEN [kind |-> "skip"]
        ELSE IF IsCaseA(parts)
             THEN RecordOrRaise(ToDatetimeCombined(parts[1]), ParseFloat(parts[2]))
        ELSE IF IsCaseB(parts)
             THEN RecordOrRaise(ToDatetimeSplit(JoinSpace(SubSeq(parts, 1, 6))),
                                ParseFloat(parts[7]))
        ELSE [kind |-> "skip"]

\* The whole loop: the records in input order, or the error that ended it.
RECURSIVE ParseLines(_, _)
ParseLines(lines, records) ==
    IF lines = <<>> THEN [ok |-> TRUE, records |-> records]
    ELSE LET r == ParseLine(Head(lines))
         IN  IF r.kind = "raise" THEN r.err
             ELSE IF r.kind = "record"
                  THEN ParseLines(Tail(lines), Append(records, r.rec))
             ELSE ParseLines(Tail(lines), records)

\* raise ValueError(f"No data found for station {station_id}")
NoDataError(sid) ==
    [ok |-> FALSE, exc |-> "ValueError", site |-> "no_data", station |-> sid]

IsMonotonicIncreasing(rows) ==
    \A i \in 1..(Len(rows) - 1) : rows[i].ts <= rows[i + 1].ts

\* .sort_index() with its default kind='quicksort', which is documented as
\* not stable: rows of equal timestamp come out in any order (numpy's
\* introsort keeps their order only in arrays short enough to be sorted by
\* insertion).  An index that is already monotonic increasing is returned
\* as it is.
SortIndexResults(rows) ==
    IF IsMonotonicIncreasing(rows) THEN {rows}
    ELSE LET n == Len(rows)
             perms == {f \in [1..n -> 1..n] :
                          \A i, j \in 1..n : i # j => f[i] # f[j]}
         IN  {s \in {[i \in 1..n |-> rows[f[i]]] : f \in perms} :
                 IsMonotonicIncreasing(s)}

\* The indices of s where keep[i] holds, in order.
RECURSIVE KeptIndices(_, _)
KeptIndices(keep, i) ==
    IF i > Len(keep) THEN <<>>
    ELSE (IF keep[i] THEN <<i>> ELSE <<>>) \o KeptIndices(keep, i + 1)

\* A faulty variant of DropDuplicates: the filter left out.
KeepDuplicates(rows) == rows

\* df[~df.index.duplicated(keep='first')]
DropDuplicates(rows) ==
    LET dup  == [i \in 1..Len(rows) |->
                    \E j \in 1..(i - 1) : rows[j].ts = rows[i].ts]
        kept == KeptIndices([i \in 1..Len(rows) |-> ~dup[i]], 1)
    IN  [i \in 1..Len(kept) |-> rows[kept[i]]]

\* A faulty variant of NoRecords: `if records is None`, never true of a list.
RecordsIsNone(records) == records = Pending

\* if not records
NoRecords(records) == records = <<>>

\* Everything after the loop: the no-data error, or a table.
BuildTableResults(sid, records) ==
    IF NoRecords(records) THEN {NoDataError(sid)}
    ELSE {[ok |-> TRUE, df |-> [col |-> "water_height", rows |-> DropDuplicates(s)]] :
             s \in SortIndexResults(records)}

\* The call as a whole: what it may return or raise for one response.
FetchDartDataResults(sid, resp) ==
    IF resp.status # "ok" THEN {RequestError(resp)}
    ELSE LET parsed == ParseLines(SplitLines(resp.text), <<>>)
         IN  IF parsed.ok THEN BuildTableResults(sid, parsed.records)
             ELSE {parsed}

(***************************************************************************)
(* Inputs: lines a DART feed can hold, and the texts made of them          *)
(***************************************************************************)
\* " ": whitespace only
LineBlank ==
    <<" ">>

\* " #YY MM": a header line, '#' after a leading blank
LineComment ==
    <<" ", "#", "Y", "Y", " ", "M", "M">>

\* "20250729120000 1.234": shape A, 12:00:00, 1.234
LineA_t2 ==
    <<"2", "0", "2", "5", "0", "7", "2", "9", "1", "2", "0", "0", "0", "0", " ", "1", ".", "2", "3", "4">>

\* "2025 07 29 12 00 00 1.234 1 x": shape B, the same instant and height, two more tokens
LineB_t2 ==
    <<"2", "0", "2", "5", " ", "0", "7", " ", "2", "9", " ", "1", "2", " ", "0", "0", " ", "0", "0", " ", "1", ".", "2", "3", "4", " ", "1", " ", "x">>

\* "2025 7 29 12 0 0 2.5": shape B, 12:00:00 again, another height, unpadded fields
LineB_t2_other ==
    <<"2", "0", "2", "5", " ", "7", " ", "2", "9", " ", "1", "2", " ", "0", " ", "0", " ", "2", ".", "5">>

\* "20250729115900 0.5 7": shape A, 11:59:00, one more token
LineA_t1 ==
    <<"2", "0", "2", "5", "0", "7", "2", "9", "1", "1", "5", "9", "0", "0", " ", "0", ".", "5", " ", "7">>

\* "20250729120100 -1e1": shape A, 12:01:00
LineA_t3 ==
    <<"2", "0", "2", "5", "0", "7", "2", "9", "1", "2", "0", "1", "0", "0", " ", "-", "1", "e", "1">>

\* "20250729120200 nan": shape A, 12:02:00, height nan
LineA_t4 ==
    <<"2", "0", "2", "5", "0", "7", "2", "9", "1", "2", "0", "2", "0", "0", " ", "n", "a", "n">>

\* "20250729120000 MM": shape A, height not a float
LineA_badfloat ==
    <<"2", "0", "2", "5", "0", "7", "2", "9", "1", "2", "0", "0", "0", "0", " ", "M", "M">>

\* "2025 07 29 12 01 00 1.2.3": shape B, height not a float
LineB_badfloat ==
    <<"2", "0", "2", "5", " ", "0", "7", " ", "2", "9", " ", "1", "2", " ", "0", "1", " ", "0", "0", " ", "1", ".", "2", ".", "3">>

\* "20251329120000 1.0": shape A, month 13
LineA_badmonth ==
    <<"2", "0", "2", "5", "1", "3", "2", "9", "1", "2", "0", "0", "0", "0", " ", "1", ".", "0">>

\* "2025 07 29 25 00 00 1.0": shape B, hour 25
LineB_badhour ==
    <<"2", "0", "2", "5", " ", "0", "7", " ", "2", "9", " ", "2", "5", " ", "0", "0", " ", "0", "0", " ", "1", ".", "0">>

\* "2025 007 29 12 00 00 1.0": shape B, a field of three digits
LineB_longfield ==
    <<"2", "0", "2", "5", " ", "0", "0", "7", " ", "2", "9", " ", "1", "2", " ", "0", "0", " ", "0", "0", " ", "1", ".", "0">>

\* "Stn 21416": no known shape
LineWords ==
    <<"S", "t", "n", " ", "2", "1", "4", "1", "6">>

\* "2025 07 29 12 00 00": six digit runs and no height: no known shape
LineSixTokens ==
    <<"2", "0", "2", "5", " ", "0", "7", " ", "2", "9", " ", "1", "2", " ", "0", "0", " ", "0", "0">>

\* "20250729120000": fourteen digits and no height: no known shape
LineDigitsOnly ==
    <<"2", "0", "2", "5", "0", "7", "2", "9", "1", "2", "0", "0", "0", "0">>

\* "20250729120300 7.5": shape A, 12:03:00, a line only failing texts hold
LineA_t5 ==
    <<"2", "0", "2", "5", "0", "7", "2", "9", "1", "2", "0", "3", "0", "0", " ", "7", ".", "5">>

\* The lines the texts of SpecFetch are drawn from.
LineCatalogue ==
    <<LineBlank, LineComment, LineWords, LineSixTokens,
      LineA_t1, LineA_t2, LineB_t2, LineB_t2_other, LineA_t3,
      LineA_badfloat, LineA_badmonth, LineB_longfield>>

\* The most lines a text of SpecFetch holds.
MaxLines == 3

\* Each line followed by a line feed, as the server sends them.
RECURSIVE JoinLines(_)
JoinLines(ls) ==
    IF ls = <<>> THEN <<>> ELSE Head(ls) \o <<"\n">> \o JoinLines(Tail(ls))

Texts ==
    {JoinLines([i \in DOMAIN c |-> LineCatalogue[c[i]]]) :
        c \in UNION {[1..n -> 1..Len(LineCatalogue)] : n \in 0..MaxLines}}

\* The calls SpecFetch makes: one station, every answer of the server.
FetchCalls ==
    {[sid |-> "21416", status |-> st, text |-> <<>>] : st \in {"timeout", "http_error"}}
    \cup {[sid |-> "21416", status |-> "ok", text |-> t] : t \in Texts}

\* What a station of main may be answered.
TextNoData   == JoinLines(<<LineComment, LineBlank, LineWords, LineDigitsOnly>>)
TextGood     == JoinLines(<<LineComment, LineA_t3, LineA_t2, LineA_t1>>)
TextDup      == JoinLines(<<LineA_t4, LineB_t2_other, LineB_t2>>)
TextBadFloat == JoinLines(<<LineA_t5, LineB_badfloat, LineA_t3>>)
TextBadHour  == JoinLines(<<LineA_t5, LineB_badhour, LineA_t1>>)
TextBadMonth == JoinLines(<<LineA_badmonth, LineA_t5>>)
TextBadFloatA == JoinLines(<<LineA_t2, LineA_t5, LineA_badfloat>>)
TextLongField == JoinLines(<<LineA_t5, LineB_longfield>>)

MainResponses ==
    <<[status |-> "timeout", text |-> <<>>],
      [status |-> "http_error", text |-> <<>>],
      [status |-> "ok", text |-> TextNoData],
      [status |-> "ok", text |-> TextGood],
      [status |-> "ok", text |-> TextDup],
      [status |-> "ok", text |-> TextBadFloat],
      [status |-> "ok", text |-> TextBadHour],
      [status |-> "ok", text |-> TextBadMonth],
      [status |-> "ok", text |-> TextBadFloatA],
      [status |-> "ok", text |-> TextLongField]>>

(***************************************************************************)
(* fetch_dart_data, step by step                                           *)
(***************************************************************************)
Idle == [state |-> "idle"]

\* resp = requests.get(url, timeout=10); resp.raise_for_status();
\* resp.text.splitlines()
Get ==
    /\ f_pc = "get"
    /\ IF f_resp.status # "ok"
       THEN /\ f_result' = RequestError(f_resp)
            /\ f_pc' = "end"
            /\ UNCHANGED f_lines
       ELSE /\ f_lines' = SplitLines(f_resp.text)
            /\ f_pc' = "lines"
            /\ UNCHANGED f_result
    /\ UNCHANGED <<f_resp, f_seen, f_records>>
    /\ UNCHANGED mainVars

\* One pass of the for loop: skip the line, append its record, or raise.
ReadLine ==
    /\ f_pc = "lines"
    /\ f_lines # <<>>
    /\ \E r \in {ParseLine(Head(f_lines))} :
           /\ f_seen' = Append(f_seen, Head(f_lines))
           /\ f_lines' = Tail(f_lines)
           /\ f_records' = IF r.kind = "record" THEN Append(f_records, r.rec)
                           ELSE f_records
           /\ f_result' = IF r.kind = "raise" THEN r.err ELSE f_result
           /\ f_pc' = IF r.kind = "raise" THEN "end" ELSE "lines"
    /\ UNCHANGED f_resp
    /\ UNCHANGED mainVars

\* After the loop: raise the no-data error, or sort, drop duplicates, return.
Build ==
    /\ f_pc = "lines"
    /\ f_lines = <<>>
    /\ f_result' \in BuildTableResults(f_resp.sid, f_records)
    /\ f_pc' = "end"
    /\ UNCHANGED <<f_resp, f_lines, f_seen, f_records>>
    /\ UNCHANGED mainVars

(***************************************************************************)
(* main                                                                    *)
(***************************************************************************)
Stations ==
    <<[name |-> "Kamchatka (21416)",    sid |-> "21416"],
      [name |-> "Tokyo SE (21413)",     sid |-> "21413"],
      [name |-> "Adak AK (21414)",      sid |-> "21414"],
      [name |-> "California W (46402)", sid |-> "46402"],
      [name |-> "Attu AK (21415)",      sid |-> "21415"]>>

NoFrame == [state |-> "none"]
NoChart == [state |-> "none"]

\* What fetch_dart_data does for station i on response rid.
MainOutcomes ==
    [i \in 1..Len(Stations) |->
        [rid \in 1..Len(MainResponses) |->
            FetchDartDataResults(Stations[i].sid, MainResponses[rid])]]

\* A faulty variant of Rename: the renamed frame thrown away.
RenameNothing(df, name) == df

\* df.rename(columns={'water_height': name})
Rename(df, name) ==
    [df EXCEPT !.col = IF df.col = "water_height" THEN name ELSE df.col]

\* A faulty variant of NextStation: `break` in the except clause.
StopAfterFailure(i, ok) == IF ok THEN i + 1 ELSE Len(Stations) + 1

\* The for loop moves on to the next item, whether the body returned a
\* table or went through `except Exception`.
NextStation(i, ok) == i + 1

\* dfs after the body: dfs.append(df) is reached only if nothing raised.
Collected(frames, r, name) ==
    IF r.ok THEN Append(frames, Rename(r.df, name)) ELSE frames

\* A faulty variant of ValueAt: the gaps of the join filled with 0.0.
ValueAtZeroFill(df, ts) ==
    IF \E i \in 1..Len(df.rows) : df.rows[i].ts = ts
    THEN df.rows[CHOOSE i \in 1..Len(df.rows) : df.rows[i].ts = ts].val
    ELSE [k |-> "num", neg |-> FALSE, mant |-> 0, exp |-> 0]

\* The value of column df at ts in an outer join: its own, or NaN.
ValueAt(df, ts) ==
    IF \E i \in 1..Len(df.rows) : df.rows[i].ts = ts
    THEN df.rows[CHOOSE i \in 1..Len(df.rows) : df.rows[i].ts = ts].val
    ELSE NaN

\* pd.concat(dfs, axis=1): the union of the DatetimeIndexes, ascending, one
\* column per frame in list order.
Concat(frames) ==
    LET keys  == UNION {{frames[k].rows[i].ts : i \in 1..Len(frames[k].rows)} :
                           k \in 1..Len(frames)}
        index == Ascending(keys)
    IN  [cols |-> [k \in 1..Len(frames) |-> frames[k].col],
         rows |-> [i \in 1..Len(index) |->
                     [ts   |-> index[i],
                      vals |-> [k \in 1..Len(frames) |-> ValueAt(frames[k], index[i])]]]]

\* DataFrame.tail() shows the last n = 5 rows.
TailRows == 5

FrameTail(frame) ==
    IF Len(frame.rows) <= TailRows THEN frame.rows
    ELSE SubSeq(frame.rows, Len(frame.rows) - TailRows + 1, Len(frame.rows))

\* A faulty variant of NoneFetched: `if dfs is None`, never true of a list.
DfsIsNone(frames) == frames = NoFrame

\* if not dfs
NoneFetched(frames) == frames = <<>>

\* One pass of `for name, sid in stations.items()`.
FetchStation ==
    /\ pc = "loop"
    /\ idx <= Len(Stations)
    /\ \E rid \in 1..Len(MainResponses) :
         \E r \in MainOutcomes[idx][rid] :
            /\ dfs' = Collected(dfs, r, Stations[idx].name)
            /\ console' = console
                 \o <<[msg |-> "fetching", name |-> Stations[idx].name,
                       sid |-> Stations[idx].sid]>>
                 \o (IF r.ok THEN <<>>
                     ELSE <<[msg |-> "skipped", sid |-> Stations[idx].sid,
                             err |-> r]>>)
            /\ fetched' = Append(fetched, [pos |-> idx, rid |-> rid, ok |-> r.ok])
            /\ idx' = NextStation(idx, r.ok)
    /\ UNCHANGED <<pc, combined, chart>>
    /\ UNCHANGED fetchVars

\* if not dfs: print("No data fetched for any station. Exiting."); return
NoDataExit ==
    /\ pc = "loop"
    /\ idx > Len(Stations)
    /\ NoneFetched(dfs)
    /\ console' = Append(console, [msg |-> "no_data"])
    /\ pc' = "returned"
    /\ UNCHANGED <<idx, dfs, fetched, combined, chart>>
    /\ UNCHANGED fetchVars

\* combined = pd.concat(dfs, axis=1)
Combine ==
    /\ pc = "loop"
    /\ idx > Len(Stations)
    /\ ~NoneFetched(dfs)
    /\ combined' = Concat(dfs)
    /\ pc' = "tail"
    /\ UNCHANGED <<idx, dfs, fetched, console, chart>>
    /\ UNCHANGED fetchVars

\* print("\n=== Combined Data Tail ==="); print(combined.tail())
PrintTail ==
    /\ pc = "tail"
    /\ console' = console \o <<[msg |-> "tail_header"],
                               [msg |-> "tail", rows |-> FrameTail(combined)]>>
    /\ pc' = "plot"
    /\ UNCHANGED <<idx, dfs, fetched, combined, chart>>
    /\ UNCHANGED fetchVars

\* combined.plot(ax=plt.gca()) ... plt.show(): one line per column.
Plot ==
    /\ pc = "plot"
    /\ chart' = [title  |-> "Tsunami Wave Heights from DART Buoys (m)",
                 xlabel |-> "UTC Time",
                 ylabel |-> "Water Column Height (m)",
                 legend |-> "Station",
                 series |-> combined.cols,
                 frame  |-> combined]
    /\ pc' = "done"
    /\ UNCHANGED <<idx, dfs, fetched, console, combined>>
    /\ UNCHANGED fetchVars

(***************************************************************************)
(* Specifications                                                          *)
(***************************************************************************)
MainInit ==
    /\ pc = "loop"
    /\ idx = 1
    /\ dfs = <<>>
    /\ fetched = <<>>
    /\ console = <<>>
    /\ combined = NoFrame
    /\ chart = NoChart

\* A run of main.
Init ==
    /\ MainInit
    /\ f_pc = "idle"
    /\ f_resp = Idle
    /\ f_lines = <<>>
    /\ f_seen = <<>>
    /\ f_records = <<>>
    /\ f_result = Idle

Next == FetchStation \/ NoDataExit \/ Combine \/ PrintTail \/ Plot

Spec == Init /\ [][Next]_vars

\* One call of fetch_dart_data on any of FetchCalls.
FetchInit ==
    /\ MainInit
    /\ f_pc = "get"
    /\ f_resp \in FetchCalls
    /\ f_lines = <<>>
    /\ f_seen = <<>>
    /\ f_records = <<>>
    /\ f_result = Pending

FetchNext == Get \/ ReadLine \/ Build

SpecFetch == FetchInit /\ [][FetchNext]_vars

(***************************************************************************)
(* Properties of main (checked under Spec)                                 *)
(***************************************************************************)
\* The stations main has asked for so far, read off the console.
FetchingSids ==
    LET at == KeptIndices([i \in 1..Len(console) |-> console[i].msg = "fetching"], 1)
    IN  [i \in 1..Len(at) |-> console[at[i]].sid]

\* The display labels of the stations whose fetch returned a table, in
\* configured order.
SucceededNames ==
    LET at == KeptIndices([k \in 1..Len(fetched) |-> fetched[k].ok], 1)
    IN  [i \in 1..Len(at) |-> Stations[fetched[at[i]].pos].name]

\* C1: every configured station is attempted exactly once, in configured
\* order, with no retry; whatever the outcomes, the loop goes on to the next
\* station and is left only when all stations have been attempted.
C1_EachStationOnceInOrder ==
    /\ Len(fetched) <= Len(Stations)
    /\ \A k \in 1..Len(fetched) : fetched[k].pos = k
    /\ FetchingSids = [k \in 1..Len(fetched) |-> Stations[k].sid]
    /\ (pc = "loop" /\ Len(fetched) < Len(Stations) => idx = Len(fetched) + 1)
    /\ (pc # "loop" => Len(fetched) = Len(Stations))

\* A finished run in which stations 1, 2, 3 and 4 failed in four different
\* ways and station 5 was still fetched and parsed.
C1_Witness ==
    /\ pc = "done"
    /\ fetched[1].rid = 1 /\ fetched[2].rid = 2
    /\ fetched[3].rid = 3 /\ fetched[4].rid = 6
    /\ ~fetched[1].ok /\ ~fetched[2].ok /\ ~fetched[3].ok /\ ~fetched[4].ok
    /\ fetched[5].ok

\* C2: when every station failed, the run prints the "no data" message and
\* returns, with no join, no tail print and no chart; join, tail print and
\* chart are reached only when some station produced a table.
C2_AllFailedNoRender ==
    LET allFailed == \A k \in 1..Len(fetched) : ~fetched[k].ok
        rendering == \/ pc \in {"tail", "plot", "done"}
                     \/ combined # NoFrame
                     \/ chart # NoChart
                     \/ \E i \in 1..Len(console) :
                           console[i].msg \in {"tail_header", "tail"}
    IN  /\ (allFailed /\ pc # "loop" =>
               /\ pc = "returned"
               /\ console[Len(console)] = [msg |-> "no_data"]
               /\ ~rendering)
        /\ (rendering => ~allFailed /\ dfs # <<>>)
        /\ (pc = "returned" => allFailed)

\* All five stations failed and main has returned.
C2_Witness ==
    /\ pc = "returned"
    /\ Len(fetched) = Len(Stations)
    /\ {fetched[k].rid : k \in 1..Len(fetched)} = {1, 3, 6, 7, 8}

\* The timestamps of a station table.
KeysOf(df) == {df.rows[i].ts : i \in 1..Len(df.rows)}

\* C6: the combined table has one row per timestamp of the union of the
\* station tables' timestamps, ascending; where a station has a reading the
\* row holds that reading's height, and where it has none the row holds the
\* absent marker NaN, which is not the number zero.
C6_OuterJoin ==
    combined # NoFrame =>
        LET n == Len(combined.rows) IN
        /\ {combined.rows[i].ts : i \in 1..n} = UNION {KeysOf(dfs[k]) : k \in 1..Len(dfs)}
        /\ \A i \in 1..(n - 1) : combined.rows[i].ts < combined.rows[i + 1].ts
        /\ \A i \in 1..n :
              /\ Len(combined.rows[i].vals) = Len(dfs)
              /\ \A k \in 1..Len(dfs) :
                    /\ \A j \in 1..Len(dfs[k].rows) :
                          dfs[k].rows[j].ts = combined.rows[i].ts
                             => combined.rows[i].vals[k] = dfs[k].rows[j].val
                    /\ (combined.rows[i].ts \notin KeysOf(dfs[k])
                           => /\ combined.rows[i].vals[k] = [k |-> "nan"]
                              /\ combined.rows[i].vals[k] #
                                    [k |-> "num", neg |-> FALSE, mant |-> 0, exp |-> 0])

\* Two tables that share the timestamp 12:00:00 and each hold one the other
\* lacks have been joined.
C6_Witness ==
    /\ combined # NoFrame
    /\ Len(dfs) = 2
    /\ KeysOf(dfs[1]) \cap KeysOf(dfs[2]) # {}
    /\ KeysOf(dfs[1]) \ KeysOf(dfs[2]) # {}
    /\ KeysOf(dfs[2]) \ KeysOf(dfs[1]) # {}
    /\ Len(combined.rows) = 4

\* The timestamps of the lines of response rid that parse to a record.
RecordKeys(rid) ==
    LET ls == SplitLines(MainResponses[rid].text)
    IN  {ParseLine(ls[i]).rec.ts :
            i \in {j \in 1..Len(ls) : ParseLine(ls[j]).kind = "record"}}

MainRecordKeys == [rid \in 1..Len(MainResponses) |-> RecordKeys(rid)]

\* C8: the combined table, and the chart made of it, has exactly one series
\* per station whose fetch and parse succeeded, under that station's display
\* label, in configured order; a failed station gives no series and no
\* timestamp.
C8_OneSeriesPerSuccess ==
    /\ [k \in 1..Len(dfs) |-> dfs[k].col] = SucceededNames
    /\ (combined # NoFrame =>
           /\ combined.cols = SucceededNames
           /\ \A i \in 1..Len(combined.rows) :
                 \E k \in 1..Len(fetched) :
                    /\ fetched[k].ok
                    /\ combined.rows[i].ts \in MainRecordKeys[fetched[k].rid])
    /\ (chart # NoChart => chart.series = SucceededNames /\ chart.frame = combined)

\* A chart of stations 2 and 5 only: 1, 3 and 4 failed, 3 and 4 on texts
\* that hold valid lines.
C8_Witness ==
    /\ chart # NoChart
    /\ chart.series = <<"Tokyo SE (21413)", "Attu AK (21415)">>
    /\ fetched[3].rid = 6
    /\ fetched[4].rid = 8

\* A line that has record shape A or B and whose height token is no float.
ShapedBadHeight(raw) ==
    LET t == Split(Strip(raw))
    IN  /\ t # <<>>
        /\ t[1][1] # "#"
        /\ \/ /\ Len(t) >= 2 /\ Len(t[1]) = 14 /\ AllDigits(t[1])
              /\ ~ParseFloat(t[2]).ok
           \/ /\ ~(Len(t) >= 2 /\ Len(t[1]) = 14 /\ AllDigits(t[1]))
              /\ Len(t) >= 7 /\ \A k \in 1..6 : AllDigits(t[k])
              /\ ~ParseFloat(t[7]).ok

BadHeightResponses ==
    {rid \in 1..Len(MainResponses) :
        /\ MainResponses[rid].status = "ok"
        /\ \E i \in 1..Len(SplitLines(MainResponses[rid].text)) :
              ShapedBadHeight(SplitLines(MainResponses[rid].text)[i])}

\* The "skipped" line main printed for station k names site as the failure.
SkippedAt(k, site) ==
    \E i \in 1..Len(console) :
        /\ console[i].msg = "skipped"
        /\ console[i].sid = Stations[k].sid
        /\ console[i].err.site = site

\* C9: a station whose text holds a line of record shape with a height that
\* is no float fails as a whole: no table of it is collected, no column and
\* no reading of it (not even of its valid lines) reaches the combined table,
\* main prints the skip and goes on with the next station.
C9_BadHeightDropsStation ==
    \A k \in 1..Len(fetched) :
        fetched[k].rid \in BadHeightResponses =>
            /\ ~fetched[k].ok
            /\ SkippedAt(k, "float")
            /\ \A j \in 1..Len(dfs) : dfs[j].col # Stations[k].name
            /\ (combined # NoFrame =>
                   /\ \A j \in 1..Len(combined.cols) :
                         combined.cols[j] # Stations[k].name
                   /\ Len(combined.cols) =
                         Cardinality({j \in 1..Len(fetched) : fetched[j].ok}))
            /\ (pc = "loop" /\ k < Len(Stations) => idx >= k + 1)
            /\ (pc # "loop" => Len(fetched) = Len(Stations))

\* Station 2 got the text with the bad height (split form) between two
\* valid lines and station 4 the one with the bad height (combined form)
\* after two valid lines; the stations after them were fetched, and the run
\* went on to the chart.
C9_Witness ==
    /\ pc = "done"
    /\ fetched[2].rid = 6 /\ 6 \in BadHeightResponses
    /\ fetched[4].rid = 9 /\ 9 \in BadHeightResponses
    /\ fetched[1].ok /\ fetched[3].ok /\ fetched[5].ok

\* A line that has record shape A or B by its digits, whose digits are no
\* date and time of the calendar.
ShapedBadDate(raw) ==
    LET t == Split(Strip(raw))
        isA == Len(t) >= 2 /\ Len(t[1]) = 14 /\ AllDigits(t[1])
        isB == Len(t) >= 7 /\ \A k \in 1..6 : AllDigits(t[k])
    IN  /\ t # <<>>
        /\ t[1][1] # "#"
        /\ \/ isA /\ ~ToDatetimeCombined(t[1]).ok
           \/ ~isA /\ isB /\ ~ToDatetimeSplit(JoinSpace(SubSeq(t, 1, 6))).ok

BadDateResponses ==
    {rid \in 1..Len(MainResponses) :
        /\ MainResponses[rid].status = "ok"
        /\ \E i \in 1..Len(SplitLines(MainResponses[rid].text)) :
              ShapedBadDate(SplitLines(MainResponses[rid].text)[i])}

\* C10: a station whose text holds a line of record shape whose digits are
\* no valid date and time is not parsed around that line: the conversion
\* raises, the station gives no table, main prints the skip and the station
\* is missing from the combined table, whatever its other lines.
C10_BadDateDropsStation ==
    \A k \in 1..Len(fetched) :
        fetched[k].rid \in BadDateResponses =>
            /\ ~fetched[k].ok
            /\ SkippedAt(k, "to_datetime")
            /\ \A j \in 1..Len(dfs) : dfs[j].col # Stations[k].name
            /\ (combined # NoFrame =>
                   \A j \in 1..Len(combined.cols) :
                      combined.cols[j] # Stations[k].name)

\* Stations 1, 3 and 5 got the texts with hour 25, month 13 and a month of
\* three digits, the others a good text, and the run went on to the chart.
C10_Witness ==
    /\ pc = "done"
    /\ fetched[1].rid = 7 /\ 7 \in BadDateResponses
    /\ fetched[3].rid = 8 /\ 8 \in BadDateResponses
    /\ fetched[5].rid = 10 /\ 10 \in BadDateResponses
    /\ fetched[2].ok /\ fetched[4].ok
    /\ chart.series = <<"Tokyo SE (21413)", "California W (46402)">>

(***************************************************************************)
(* Properties of fetch_dart_data (checked under SpecFetch)                 *)
(***************************************************************************)
\* The call has returned a table.
Returned == f_pc = "end" /\ f_result.ok

\* The call was ended by a line of the text (a conversion raised).
RaisedOnLine ==
    f_pc = "end" /\ ~f_result.ok /\ f_result.site \in {"to_datetime", "float"}

\* C3: when lines of one timestamp carry different heights, the returned
\* table holds one row for the timestamp, with the height of the line that
\* comes first in the input.
C3_FirstSeenWins ==
    Returned =>
        \A i \in 1..Len(f_result.df.rows) :
            LET row   == f_result.df.rows[i]
                first == CHOOSE j \in 1..Len(f_records) :
                            /\ f_records[j].ts = row.ts
                            /\ \A h \in 1..(j - 1) : f_records[h].ts # row.ts
            IN  /\ row.val = f_records[first].val
                /\ \A h \in 1..Len(f_result.df.rows) :
                      f_result.df.rows[h].ts = row.ts => h = i

\* C4: a returned table is not empty, its timestamps ascend strictly (so
\* none occurs twice), and they are the timestamps of the parsed lines.
C4_SortedUniqueComplete ==
    Returned =>
        LET rows == f_result.df.rows IN
        /\ rows # <<>>
        /\ \A i \in 1..(Len(rows) - 1) : rows[i].ts < rows[i + 1].ts
        /\ {rows[i].ts : i \in 1..Len(rows)}
              = {f_records[j].ts : j \in 1..Len(f_records)}
        /\ f_lines = <<>>

\* Three records were read, out of order and two of them at one timestamp,
\* and the table of two rows was returned.
C4_Witness ==
    /\ Returned
    /\ Len(f_records) = 3
    /\ f_records[1].ts > f_records[3].ts
    /\ f_records[1].ts = f_records[2].ts
    /\ Len(f_result.df.rows) = 2

\* The tokens of a line, and the record shape the classification rules give
\* it: A, B or none (blank, comment, anything else).
TokensOf(raw) == Split(Strip(raw))

ShapeOf(raw) ==
    LET t == TokensOf(raw)
    IN  IF t = <<>> THEN "none"
        ELSE IF t[1][1] = "#" THEN "none"
        ELSE IF Len(t[1]) = 14 /\ AllDigits(t[1]) /\ Len(t) >= 2 THEN "A"
        ELSE IF Len(t) >= 7 /\ \A k \in 1..6 : AllDigits(t[k]) THEN "B"
        ELSE "none"

\* Only whitespace, or '#' as the first character that is not whitespace.
BlankOrComment(raw) ==
    \/ \A k \in 1..Len(raw) : raw[k] \in Whitespace
    \/ \E k \in 1..Len(raw) :
          raw[k] = "#" /\ \A j \in 1..(k - 1) : raw[j] \in Whitespace

\* Every line of the text, read or not.
AllLines == f_seen \o f_lines

\* C5: on a text none of whose lines has a record shape, and so on a text
\* of blank lines and '#' lines only, the call raises the no-data error that
\* names the station, and returns no table.
C5_NoShapeNoData ==
    f_pc = "end" /\ f_resp.status = "ok" =>
        LET noData == [ok |-> FALSE, exc |-> "ValueError", site |-> "no_data",
                       station |-> f_resp.sid]
        IN  /\ (\A i \in 1..Len(AllLines) : ShapeOf(AllLines[i]) = "none")
                  => f_result = noData
            /\ (\A i \in 1..Len(AllLines) : BlankOrComment(AllLines[i]))
                  => f_result = noData

\* A text of a comment, a blank line and a line of words ended in the
\* no-data error.
C5_Witness ==
    /\ f_pc = "end"
    /\ Len(f_seen) = 3
    /\ \E i, j, k \in 1..3 :
          /\ f_seen[i] = LineComment /\ f_seen[j] = LineBlank
          /\ f_seen[k] = LineWords
    /\ ~f_result.ok
    /\ f_result.site = "no_data"

\* The reading the rules give for a line of shape A or B: the instant of the
\* six date and time numbers, and the height of the token after them.
ReadingOf(raw) ==
    LET t == TokensOf(raw)
        n == IF ShapeOf(raw) = "A"
             THEN <<DigitsValue(SubSeq(t[1], 1, 4)), DigitsValue(SubSeq(t[1], 5, 6)),
                    DigitsValue(SubSeq(t[1], 7, 8)), DigitsValue(SubSeq(t[1], 9, 10)),
                    DigitsValue(SubSeq(t[1], 11, 12)), DigitsValue(SubSeq(t[1], 13, 14))>>
             ELSE [k \in 1..6 |-> DigitsValue(t[k])]
        h == ParseFloat(IF ShapeOf(raw) = "A" THEN t[2] ELSE t[7])
    IN  [ts  |-> DaysFromCivil(n[1], n[2], n[3]) * 86400
                 + n[4] * 3600 + n[5] * 60 + n[6],
         val |-> IF h.ok THEN h.val ELSE [k |-> "invalid"]]

\* The readings of the lines of record shape among ls, in order.
ReadingsOf(ls) ==
    LET at == KeptIndices([i \in 1..Len(ls) |-> ShapeOf(ls[i]) # "none"], 1)
    IN  [i \in 1..Len(at) |-> ReadingOf(ls[at[i]])]

\* C7: line by line, the records collected are the readings of the lines
\* of shape A (fourteen digits, then the height) and of shape B (six digit
\* runs, then the height), tokens after the height ignored, and every other
\* line adds nothing; only a line of shape A or B can end the call.
C7_Classification ==
    f_pc \in {"lines", "end"} /\ f_resp.status = "ok" =>
        /\ f_records = ReadingsOf(IF RaisedOnLine
                                  THEN SubSeq(f_seen, 1, Len(f_seen) - 1)
                                  ELSE f_seen)
        /\ (RaisedOnLine => ShapeOf(f_seen[Len(f_seen)]) # "none")

\* The combined and the split form of 12:00:00 / 1.234 and a line of six
\* digit runs were read: two equal records and nothing else.
C7_Witness ==
    /\ f_pc = "end"
    /\ f_seen = <<LineB_t2, LineSixTokens, LineA_t2>>
    /\ Len(f_records) = 2
    /\ f_records[1] = f_records[2]
    /\ f_records[1].ts = 1753790400

=============================================================================
